---- MODULE Spec2Model ----
(***************************************************************************)
(* Federation policy and activity exchange layer of lemmy's apub crate:    *)
(* the domain policy checks, the LOCAL_INSTANCE once-cell, the site inbox  *)
(* receive pipeline, the apub URL generators and the lenient serde         *)
(* deserializers of crates/apub/src/lib.rs.                                *)
(*                                                                         *)
(* Option<T> is modelled as a sequence: None is <<>>, Some(x) is <<x>>.    *)
(* A Vec that is only tested with contains() is modelled as a set.         *)
(***************************************************************************)
EXTENDS Integers, Sequences, FiniteSets, TLC

VARIABLES
  settings,       \* Settings: the process-wide configuration
  apub_id,        \* the Url handed to the policy checks
  is_strict,      \* the is_strict argument of the strictness-aware check
  basic_result,   \* what check_apub_id_valid returned for apub_id
  strict_result,  \* what check_apub_id_valid_with_strictness returned
  cell,           \* LOCAL_INSTANCE: the OnceCell<LocalInstance>
  pc,             \* per caller of local_instance: where it is in get_or_init
  returned,       \* per caller: the sequence of references its calls returned
  constructed,    \* how many times the get_or_init closure has run to the end
  req,            \* one POST to the site inbox, on its way through the pipeline
  activity_log,   \* the activity table insert_activity writes to
  ep1,            \* a first call of generate_local_apub_endpoint
  ep2,            \* a second call of generate_local_apub_endpoint
  actor_id,       \* the actor id handed to generate_shared_inbox_url
  shared_inbox,   \* what generate_shared_inbox_url returned
  payload,        \* a JSON object on the wire
  decoded         \* what deserializing payload gave

vars == <<settings, apub_id, is_strict, basic_result, strict_result, cell, pc,
          returned, constructed, req, activity_log, ep1, ep2, actor_id,
          shared_inbox, payload, decoded>>

policyVars == <<settings, apub_id, is_strict, basic_result, strict_result>>
singletonVars == <<cell, pc, returned, constructed>>
inboxVars == <<req, activity_log>>
urlVars == <<ep1, ep2, actor_id, shared_inbox>>
codecVars == <<payload, decoded>>

\* What the operations of each part leave alone.
checkVars == <<apub_id, is_strict, basic_result, strict_result>>
notPolicyVars == <<singletonVars, inboxVars, urlVars, codecVars>>
notSingletonVars == <<checkVars, inboxVars, urlVars, codecVars>>
notInboxVars == <<checkVars, singletonVars, urlVars, codecVars>>
notUrlVars == <<policyVars, singletonVars, inboxVars, codecVars>>
notCodecVars == <<policyVars, singletonVars, inboxVars, urlVars>>

\* The value of a variable before the operation that sets it has run.
NotYet == "not yet"

\* The same for a variable that holds a record once set.
Pending == [pending |-> TRUE]

None == <<>>

Some(x) == <<x>>

-----------------------------------------------------------------------------
(* Bounds *)

\* How many domain names the configuration and the identifiers range over.
NumDomains == 3

\* How many tasks call local_instance.
NumCallers == 2

\* How many calls of local_instance each task makes.
MaxCalls == 2

\* Longest name handed to generate_local_apub_endpoint, in characters.
MaxNameLen == 2

\* Longest JSON array on the wire.
MaxArrayLen == 2

-----------------------------------------------------------------------------
(* Urls *)

DomainNames == <<"a.tld", "b.tld", "c.tld", "d.tld", "e.tld">>

Domains == {DomainNames[i] : i \in 1..NumDomains}

Schemes == {"http", "https"}

\* A host of a parsed Url: a registered domain name or an IP address.
DomainHost(d) == [kind |-> "Domain", str |-> d]

IpHost == [kind |-> "Ipv4", str |-> "127.0.0.1"]

\* Url::domain(): the host, when it is a domain name and not an IP address.
domain(url) ==
  IF url.host # None /\ url.host[1].kind = "Domain"
    THEN Some(url.host[1].str)
    ELSE None

\* Url::host_str()
host_str(url) == IF url.host = None THEN None ELSE Some(url.host[1].str)

\* The identifiers the policy checks are given: either scheme, a host that is
\* any of the domains or an IP address, no port.
PolicyUrls ==
  [scheme : Schemes,
   host : {Some(DomainHost(d)) : d \in Domains} \cup {Some(IpHost)},
   port : {None},
   path : {<< <<"u">>, <<"alice">> >>}]

-----------------------------------------------------------------------------
(* Settings *)

\* Option<Vec<String>> over the domains.
OptionalDomainLists == {None} \cup {Some(s) : s \in SUBSET Domains}

FederationConfigs ==
  [enabled : BOOLEAN,
   allowed_instances : OptionalDomainLists,
   blocked_instances : OptionalDomainLists,
   strict_allowlist : BOOLEAN,
   worker_count : {2}]

AllSettings ==
  [hostname : Domains,
   protocol : Schemes,
   http_fetch_retry_limit : {25},
   federation : FederationConfigs]

\* Settings::get_protocol_string: the configured protocol scheme.
get_protocol_string(s) == s.protocol

\* Settings::get_hostname_without_port: the local hostname; the hostnames
\* here carry no port.
get_hostname_without_port(s) == Some(s.hostname)

-----------------------------------------------------------------------------
(* The domain policy checks *)

Ok == "Ok"

ErrFederationDisabled == "Federation disabled"
ErrInvalidScheme == "Invalid protocol scheme"
ErrBlocked == "Domain is blocked"
ErrNotInAllowlist == "Domain is not in allowlist"
ErrStrictAllowlist == "Federation forbidden by strict allowlist"

\* .expect("apud id has domain") on a None: the thread panics, no value is
\* returned to the caller.
PanicNoDomain == "panic: apud id has domain"

\* The Err values: policy rejections returned to the caller.
PolicyRejections ==
  {ErrFederationDisabled, ErrInvalidScheme, ErrBlocked, ErrNotInAllowlist,
   ErrStrictAllowlist}

\* check_apub_id_valid with the local-hostname test moved after the
\* federation-enabled test.
check_apub_id_valid_local_late(url, s) ==
  IF domain(url) = None THEN PanicNoDomain
  ELSE LET dom == domain(url)[1]
           local_instance == get_hostname_without_port(s)[1]
       IN IF ~s.federation.enabled THEN ErrFederationDisabled
          ELSE IF dom = local_instance THEN Ok
          ELSE IF url.scheme # get_protocol_string(s) THEN ErrInvalidScheme
          ELSE IF s.federation.blocked_instances # None
                  /\ dom \in s.federation.blocked_instances[1]
            THEN ErrBlocked
          ELSE IF s.federation.allowed_instances # None
                  /\ dom \notin s.federation.allowed_instances[1]
            THEN ErrNotInAllowlist
          ELSE Ok

\* check_apub_id_valid without the block-list test.
check_apub_id_valid_no_blocklist(url, s) ==
  IF domain(url) = None THEN PanicNoDomain
  ELSE LET dom == domain(url)[1]
           local_instance == get_hostname_without_port(s)[1]
       IN IF dom = local_instance THEN Ok
          ELSE IF ~s.federation.enabled THEN ErrFederationDisabled
          ELSE IF url.scheme # get_protocol_string(s) THEN ErrInvalidScheme
          ELSE IF s.federation.allowed_instances # None
                  /\ dom \notin s.federation.allowed_instances[1]
            THEN ErrNotInAllowlist
          ELSE Ok

\* check_apub_id_valid with the block-list consulted only when no allow-list
\* is configured.
check_apub_id_valid_allowlist_first(url, s) ==
  IF domain(url) = None THEN PanicNoDomain
  ELSE LET dom == domain(url)[1]
           local_instance == get_hostname_without_port(s)[1]
       IN IF dom = local_instance THEN Ok
          ELSE IF ~s.federation.enabled THEN ErrFederationDisabled
          ELSE IF url.scheme # get_protocol_string(s) THEN ErrInvalidScheme
          ELSE IF s.federation.allowed_instances # None
            THEN (IF dom \notin s.federation.allowed_instances[1]
                    THEN ErrNotInAllowlist ELSE Ok)
          ELSE IF s.federation.blocked_instances # None
                  /\ dom \in s.federation.blocked_instances[1]
            THEN ErrBlocked
          ELSE Ok

\* check_apub_id_valid without the allow-list test, which is then left to the
\* strictness-aware check.
check_apub_id_valid_no_allowlist(url, s) ==
  IF domain(url) = None THEN PanicNoDomain
  ELSE LET dom == domain(url)[1]
           local_instance == get_hostname_without_port(s)[1]
       IN IF dom = local_instance THEN Ok
          ELSE IF ~s.federation.enabled THEN ErrFederationDisabled
          ELSE IF url.scheme # get_protocol_string(s) THEN ErrInvalidScheme
          ELSE IF s.federation.blocked_instances # None
                  /\ dom \in s.federation.blocked_instances[1]
            THEN ErrBlocked
          ELSE Ok

\* fn check_apub_id_valid(apub_id: &Url, settings: &Settings)
check_apub_id_valid(url, s) ==
  IF domain(url) = None THEN PanicNoDomain
  ELSE LET dom == domain(url)[1]
           local_instance == get_hostname_without_port(s)[1]
       IN IF dom = local_instance THEN Ok
          ELSE IF ~s.federation.enabled THEN ErrFederationDisabled
          ELSE IF url.scheme # get_protocol_string(s) THEN ErrInvalidScheme
          ELSE IF s.federation.blocked_instances # None
                  /\ dom \in s.federation.blocked_instances[1]
            THEN ErrBlocked
          ELSE IF s.federation.allowed_instances # None
                  /\ dom \notin s.federation.allowed_instances[1]
            THEN ErrNotInAllowlist
          ELSE Ok

\* fn check_apub_id_valid_with_strictness(apub_id, is_strict, settings):
\* the basic check first, its Err returned by `?`; then the strict allow-list
\* with the local hostname pushed onto it.
check_apub_id_valid_with_strictness(url, strict, s) ==
  LET basic == check_apub_id_valid(url, s)
  IN IF basic # Ok THEN basic
     ELSE IF domain(url) = None THEN PanicNoDomain
     ELSE LET dom == domain(url)[1]
              local_instance == get_hostname_without_port(s)[1]
          IN IF dom = local_instance THEN Ok
             ELSE IF s.federation.allowed_instances # None
                     /\ (strict \/ s.federation.strict_allowlist)
                     /\ dom \notin (s.federation.allowed_instances[1]
                                      \cup {local_instance})
               THEN ErrStrictAllowlist
             ELSE Ok

-----------------------------------------------------------------------------
(* Specification of the policy checks: a configuration and an identifier,  *)
(* then the two checks on them.                                            *)

PolicyIdle ==
  /\ settings = NotYet /\ apub_id = NotYet /\ is_strict = NotYet
  /\ basic_result = NotYet /\ strict_result = NotYet

PolicyInit ==
  /\ settings \in AllSettings
  /\ apub_id \in PolicyUrls
  /\ is_strict \in BOOLEAN
  /\ basic_result = NotYet
  /\ strict_result = NotYet

CallCheckApubIdValid ==
  /\ basic_result = NotYet
  /\ basic_result' = check_apub_id_valid(apub_id, settings)
  /\ UNCHANGED <<settings, apub_id, is_strict, strict_result>>
  /\ UNCHANGED notPolicyVars

CallCheckApubIdValidWithStrictness ==
  /\ strict_result = NotYet
  /\ strict_result' = check_apub_id_valid_with_strictness(apub_id, is_strict, settings)
  /\ UNCHANGED <<settings, apub_id, is_strict, basic_result>>
  /\ UNCHANGED notPolicyVars

-----------------------------------------------------------------------------
(* LOCAL_INSTANCE: OnceCell<LocalInstance> and local_instance()            *)

Callers == 1..NumCallers

\* The configurations local_instance can find when its closure runs.
SingletonSettings ==
  {s \in AllSettings :
     /\ s.federation.enabled
     /\ s.federation.allowed_instances = None
     /\ s.federation.blocked_instances = None
     /\ ~s.federation.strict_allowlist}

\* OnceCell::get_or_init lets a caller run the closure while another caller
\* is still running it.
CanStartInit_racy(c) == c.state # "set"

\* OnceCell::get_or_init: a caller runs the closure only if the cell is
\* empty and no other caller is running it.
CanStartInit(c) == c.state = "uninit"

\* The closure of local_instance: InstanceSettings::new and
\* LocalInstance::new over the configuration found when it runs. `id` tells
\* apart the LocalInstance values constructed in this process.
NewLocalInstance(s, n) ==
  [id |-> n,
   hostname |-> s.hostname,
   http_fetch_retry_limit |-> s.http_fetch_retry_limit,
   worker_count |-> s.federation.worker_count]

SingletonIdle ==
  /\ cell = NotYet /\ pc = NotYet /\ returned = NotYet /\ constructed = NotYet

SingletonInit ==
  /\ settings \in SingletonSettings
  /\ cell = [state |-> "uninit", value |-> None]
  /\ pc = [t \in Callers |-> "idle"]
  /\ returned = [t \in Callers |-> <<>>]
  /\ constructed = 0
  /\ apub_id = NotYet /\ is_strict = NotYet
  /\ basic_result = NotYet /\ strict_result = NotYet

\* get_or_init finds the cell set: the stored reference is returned.
GetOrInitFast(t) ==
  /\ pc[t] = "idle"
  /\ Len(returned[t]) < MaxCalls
  /\ cell.state = "set"
  /\ returned' = [returned EXCEPT ![t] = Append(@, cell.value[1])]
  /\ UNCHANGED <<cell, pc, constructed, settings>>
  /\ UNCHANGED notSingletonVars

\* get_or_init finds the cell empty: this caller becomes the initializer.
GetOrInitStart(t) ==
  /\ pc[t] = "idle"
  /\ Len(returned[t]) < MaxCalls
  /\ CanStartInit(cell)
  /\ cell' = [cell EXCEPT !.state = IF @ = "set" THEN "set" ELSE "running"]
  /\ pc' = [pc EXCEPT ![t] = "initializing"]
  /\ UNCHANGED <<returned, constructed, settings>>
  /\ UNCHANGED notSingletonVars

\* get_or_init finds another caller initializing: this caller waits.
GetOrInitWait(t) ==
  /\ pc[t] = "idle"
  /\ Len(returned[t]) < MaxCalls
  /\ cell.state = "running"
  /\ ~CanStartInit(cell)
  /\ pc' = [pc EXCEPT ![t] = "waiting"]
  /\ UNCHANGED <<cell, returned, constructed, settings>>
  /\ UNCHANGED notSingletonVars

\* The initializer's closure returns: its LocalInstance is stored in the
\* cell and a reference to the stored value is returned.
InitializerDone(t) ==
  /\ pc[t] = "initializing"
  /\ LET inst == NewLocalInstance(settings, constructed + 1)
     IN /\ cell' = [state |-> "set", value |-> Some(inst)]
        /\ returned' = [returned EXCEPT ![t] = Append(@, inst)]
  /\ constructed' = constructed + 1
  /\ pc' = [pc EXCEPT ![t] = "idle"]
  /\ UNCHANGED settings
  /\ UNCHANGED notSingletonVars

\* A waiting caller is woken once the cell is set.
WaitDone(t) ==
  /\ pc[t] = "waiting"
  /\ cell.state = "set"
  /\ returned' = [returned EXCEPT ![t] = Append(@, cell.value[1])]
  /\ pc' = [pc EXCEPT ![t] = "idle"]
  /\ UNCHANGED <<cell, constructed, settings>>
  /\ UNCHANGED notSingletonVars

\* The configuration is replaced while the process runs.
ChangeSettings ==
  /\ \E s \in SingletonSettings : s # settings /\ settings' = s
  /\ UNCHANGED <<cell, pc, returned, constructed>>
  /\ UNCHANGED notSingletonVars

-----------------------------------------------------------------------------
(* The site inbox: get_apub_site_inbox hands the request to                *)
(* receive_lemmy_activity, which parses, authenticates, checks the sender  *)
(* against the domain policy, dispatches and records the activity.         *)

\* The configurations of the receiving instance.
InboxSettings ==
  {s \in AllSettings : s.hostname = DomainNames[1] /\ s.protocol = "https"}

\* The id of the one activity the request carries.
ActivityId == "activity-1"

\* LemmyError as an HTTP response: 400 Bad Request.
HttpError == "400 Bad Request"

HttpOk == "200 OK"

\* A panic in the handler: the request gets no response from it.
Aborted == "aborted"

\* insert_activity: Activity::insert, insert-or-ignore on the ap_id; the
\* bool tells whether a row was inserted.
insert_activity(log, ap_id) ==
  [log |-> log \cup {ap_id}, inserted |-> ap_id \notin log]

InboxIdle == req = NotYet /\ activity_log = NotYet

InboxInit ==
  /\ settings \in InboxSettings
  /\ req \in [pc : {"parse"}, sender : PolicyUrls, policy : {NotYet},
              dispatched : {FALSE}, recorded : {FALSE}, status : {NotYet},
              trace : {<<>>}]
  /\ activity_log \in {{}, {ActivityId}}
  /\ apub_id = NotYet /\ is_strict = NotYet
  /\ basic_result = NotYet /\ strict_result = NotYet

\* The request log: the steps taken so far, each with its outcome.
Step(r, name, ok) == [r EXCEPT !.trace = Append(@, [step |-> name, ok |-> ok])]

Fail(r, code) == [r EXCEPT !.pc = "done", !.status = code]

\* Parse the body as one of the SiteInboxActivities.
ReceiveParse ==
  /\ req.pc = "parse"
  /\ \E parsed \in BOOLEAN :
       req' = IF parsed THEN [Step(req, "parse", TRUE) EXCEPT !.pc = "authenticate"]
              ELSE Fail(Step(req, "parse", FALSE), HttpError)
  /\ UNCHANGED <<activity_log, settings>>
  /\ UNCHANGED notInboxVars

\* Verify the HTTP signature against the sender's public key.
ReceiveAuthenticate ==
  /\ req.pc = "authenticate"
  /\ \E verified \in BOOLEAN :
       req' = IF verified
                THEN [Step(req, "authenticate", TRUE) EXCEPT !.pc = "policy"]
              ELSE Fail(Step(req, "authenticate", FALSE), HttpError)
  /\ UNCHANGED <<activity_log, settings>>
  /\ UNCHANGED notInboxVars

\* The policy check on the sender's actor id, is_strict = false.
ReceivePolicy ==
  /\ req.pc = "policy"
  /\ LET r == check_apub_id_valid_with_strictness(req.sender, FALSE, settings)
     IN req' = IF r = Ok
                 THEN [Step(req, "policy", TRUE) EXCEPT !.pc = "dispatch",
                                                        !.policy = r]
               ELSE IF r = PanicNoDomain
                 THEN [Fail(Step(req, "policy", FALSE), Aborted) EXCEPT !.policy = r]
               ELSE [Fail(Step(req, "policy", FALSE), HttpError) EXCEPT !.policy = r]
  /\ UNCHANGED <<activity_log, settings>>
  /\ UNCHANGED notInboxVars

\* Hand the activity to its handler, which succeeds or fails as a whole.
ReceiveDispatch ==
  /\ req.pc = "dispatch"
  /\ \E handled \in BOOLEAN :
       req' = IF handled
                THEN [Step(req, "dispatch", TRUE) EXCEPT !.pc = "record",
                                                         !.dispatched = TRUE]
              ELSE Fail(Step(req, "dispatch", FALSE), HttpError)
  /\ UNCHANGED <<activity_log, settings>>
  /\ UNCHANGED notInboxVars

\* Record the payload in the activity table (best effort: a failed insert
\* is swallowed) and answer 200.
ReceiveRecord ==
  /\ req.pc = "record"
  /\ \E stored \in BOOLEAN :
       /\ activity_log' = IF stored
                            THEN insert_activity(activity_log, ActivityId).log
                            ELSE activity_log
       /\ req' = [Step(req, "record", stored) EXCEPT !.pc = "done",
                                                      !.recorded = stored,
                                                      !.status = HttpOk]
  /\ UNCHANGED settings
  /\ UNCHANGED notInboxVars

-----------------------------------------------------------------------------
(* Url::parse and Display for Url                                          *)
(*                                                                         *)
(* A string is a sequence of tokens: a scheme, "://", a host, ":", a port, *)
(* and the characters of the path, of which "/" and "." are the ones the   *)
(* parser treats specially.                                                *)

\* Hosts as they may be written: the parser lower-cases a domain name.
UpperHost == "A.TLD"

HostTokens == Domains \cup {UpperHost, IpHost.str}

PortTokens == {"80", "443", "8080"}

ToLowerHost(h) == IF h = UpperHost THEN DomainNames[1] ELSE h

\* The port a scheme implies; the parser drops it from the Url.
DefaultPort(scheme) == IF scheme = "https" THEN "443" ELSE "80"

ParseError == [parse_error |-> "ParseError"]

IsOk(r) == "url" \in DOMAIN r

\* Index of the first "/" of s, 0 if there is none.
FirstSlash(s) ==
  IF \E i \in 1..Len(s) : s[i] = "/"
    THEN CHOOSE i \in 1..Len(s) : s[i] = "/" /\ \A j \in 1..(i - 1) : s[j] # "/"
    ELSE 0

RECURSIVE Segments(_)
\* The path segments of s, the path without its leading "/".
Segments(s) ==
  LET i == FirstSlash(s)
  IN IF i = 0 THEN <<s>>
     ELSE <<SubSeq(s, 1, i - 1)>> \o Segments(SubSeq(s, i + 1, Len(s)))

RECURSIVE RemoveDots(_, _)
\* The parser's treatment of "." and ".." segments: ".." drops the segment
\* before it, "." is dropped, and either leaves an empty segment when last.
RemoveDots(segs, acc) ==
  IF segs = <<>> THEN acc
  ELSE LET seg == Head(segs)
           last == Len(segs) = 1
           slash == IF last THEN << <<>> >> ELSE <<>>
       IN IF seg = <<".", ".">>
            THEN RemoveDots(Tail(segs),
                            (IF acc = <<>> THEN acc
                             ELSE SubSeq(acc, 1, Len(acc) - 1)) \o slash)
          ELSE IF seg = <<".">>
            THEN RemoveDots(Tail(segs), acc \o slash)
          ELSE RemoveDots(Tail(segs), Append(acc, seg))

\* Url::parse of an absolute http(s) URL string.
ParseUrl(s) ==
  IF ~(Len(s) >= 3 /\ s[1] \in Schemes /\ s[2] = "://" /\ s[3] \in HostTokens)
    THEN ParseError
  ELSE LET hasPort == Len(s) >= 5 /\ s[4] = ":" /\ s[5] \in PortTokens
           rest == SubSeq(s, IF hasPort THEN 6 ELSE 4, Len(s))
           h == ToLowerHost(s[3])
       IN IF rest # <<>> /\ rest[1] # "/" THEN ParseError
          ELSE [url |->
                  [scheme |-> s[1],
                   host |-> Some(IF h = IpHost.str THEN IpHost ELSE DomainHost(h)),
                   port |-> IF hasPort /\ s[5] # DefaultPort(s[1])
                              THEN Some(s[5]) ELSE None,
                   path |-> IF rest = <<>> THEN << <<>> >>
                            ELSE RemoveDots(Segments(Tail(rest)), <<>>)]]

RECURSIVE PathString(_)
PathString(segs) ==
  IF segs = <<>> THEN <<>> ELSE <<"/">> \o Head(segs) \o PathString(Tail(segs))

\* Display for Url: the serialization, by which two Urls are compared.
UrlString(u) ==
  <<u.scheme, "://", u.host[1].str>>
    \o (IF u.port = None THEN <<>> ELSE <<":", u.port[1]>>)
    \o PathString(u.path)

-----------------------------------------------------------------------------
(* The apub URL generators *)

EndpointType == {"Community", "Person", "Post", "Comment", "PrivateMessage"}

\* The characters of a name: a letter, the path separator and the dot.
NameChars == {"c", "/", "."}

RECURSIVE SeqsUpTo(_, _)
\* The sequences over S of length at most n.
SeqsUpTo(S, n) ==
  IF n = 0 THEN {<<>>}
  ELSE LET shorter == SeqsUpTo(S, n - 1)
       IN shorter \cup {Append(q, x) : q \in shorter, x \in S}

Names == SeqsUpTo(NameChars, MaxNameLen)

\* The `domain` arguments: the protocol and hostname of an instance, the same
\* with the host in upper case, one followed by a path, and a bare hostname
\* without a scheme.
EndpointDomains ==
  {<<"https", "://", DomainNames[1]>>,
   <<"https", "://", UpperHost>>,
   <<"https", "://", DomainNames[1], "/", "u">>,
   <<DomainNames[1]>>}

\* The match in generate_local_apub_endpoint with Person mapped to "c".
point_person_as_c(endpoint_type) ==
  CASE endpoint_type = "Community" -> "c"
    [] endpoint_type = "Person" -> "c"
    [] endpoint_type = "Post" -> "post"
    [] endpoint_type = "Comment" -> "comment"
    [] endpoint_type = "PrivateMessage" -> "private_message"

\* The match on endpoint_type in generate_local_apub_endpoint.
point(endpoint_type) ==
  CASE endpoint_type = "Community" -> "c"
    [] endpoint_type = "Person" -> "u"
    [] endpoint_type = "Post" -> "post"
    [] endpoint_type = "Comment" -> "comment"
    [] endpoint_type = "PrivateMessage" -> "private_message"

\* pub fn generate_local_apub_endpoint(endpoint_type, name, domain):
\* Url::parse(&format!("{}/{}/{}", domain, point, name))
generate_local_apub_endpoint(endpoint_type, name, dom) ==
  ParseUrl(dom \o <<"/", point(endpoint_type), "/">> \o name)

\* The actor ids: parsed Urls, with and without a port and a path, and one
\* Url that has no host.
ActorIdStrings ==
  {<<sch, "://", h>> \o prt \o pth :
     sch \in Schemes, h \in Domains \cup {IpHost.str},
     prt \in {<<>>, <<":", "8080">>, <<":", "443">>},
     pth \in {<<>>, <<"/", "u", "/", "alice">>, <<"/", "u", "/", "bob">>,
              <<"/", "c", "/", "main">>}}

HostlessUrl ==
  [scheme |-> "mailto", host |-> None, port |-> None,
   path |-> << <<"alice">> >>]

ActorIds == {ParseUrl(s).url : s \in ActorIdStrings} \cup {HostlessUrl}

\* location_info!() context on a None host_str
ErrNoHost == [error |-> "None error"]

\* generate_shared_inbox_url built like generate_inbox_url: "/inbox" appended
\* to the whole actor id.
generate_shared_inbox_url_keeps_path(actor) ==
  IF host_str(actor) = None THEN ErrNoHost
  ELSE ParseUrl(UrlString(actor) \o <<"/", "inbox">>)

\* pub fn generate_shared_inbox_url(actor_id: &DbUrl)
generate_shared_inbox_url(actor) ==
  IF host_str(actor) = None THEN ErrNoHost
  ELSE ParseUrl(<<actor.scheme, "://", host_str(actor)[1]>>
                  \o (IF actor.port # None THEN <<":", actor.port[1]>> ELSE <<>>)
                  \o <<"/", "inbox">>)

UrlIdle ==
  /\ ep1 = Pending /\ ep2 = Pending /\ actor_id = Pending /\ shared_inbox = Pending

EndpointCalls ==
  [endpoint_type : EndpointType, name : Names, domain : EndpointDomains]

UrlInit == UrlIdle

\* A call of generate_local_apub_endpoint.
GenerateFirstEndpoint ==
  /\ ep1 = Pending /\ actor_id = Pending
  /\ \E c \in EndpointCalls :
       ep1' = [call |-> c,
               result |-> generate_local_apub_endpoint(c.endpoint_type, c.name, c.domain)]
  /\ UNCHANGED <<ep2, actor_id, shared_inbox>>
  /\ UNCHANGED notUrlVars

\* Another call of generate_local_apub_endpoint.
GenerateSecondEndpoint ==
  /\ ep1 # Pending /\ ep2 = Pending
  /\ \E c \in EndpointCalls :
       ep2' = [call |-> c,
               result |-> generate_local_apub_endpoint(c.endpoint_type, c.name, c.domain)]
  /\ UNCHANGED <<ep1, actor_id, shared_inbox>>
  /\ UNCHANGED notUrlVars

\* A call of generate_shared_inbox_url.
GenerateSharedInbox ==
  /\ ep1 = Pending /\ actor_id = Pending
  /\ \E a \in ActorIds :
       /\ actor_id' = a
       /\ shared_inbox' = generate_shared_inbox_url(a)
  /\ UNCHANGED <<ep1, ep2>>
  /\ UNCHANGED notUrlVars

-----------------------------------------------------------------------------
(* The lenient deserializers. JSON values on the wire: strings, numbers,   *)
(* null and arrays. The element type T is a string-like type such as Url,  *)
(* which deserializes from a JSON string and from nothing else; the        *)
(* skip-error field is an Option<String>.                                  *)

JStr(x) == [str |-> x]

JNum(n) == [num |-> n]

JNull == [null |-> TRUE]

JArr(items) == [items |-> items]

JScalars == {JStr("a"), JStr("b"), JNum(7), JNull}

\* Arrays of scalars, and arrays of such arrays.
JFlatArrays == {JArr(q) : q \in SeqsUpTo(JScalars, MaxArrayLen)}

JValues == JScalars \cup JFlatArrays \cup {JArr(<<JArr(<<JStr("a")>>)>>)}

DeOk(v) == [value |-> v]

DeErr(msg) == [de_error |-> msg]

IsDeOk(r) == "value" \in DOMAIN r

\* T::deserialize for the element type: a JSON string, nothing else.
DeserializeT(j) ==
  IF "str" \in DOMAIN j THEN DeOk(j.str) ELSE DeErr("invalid type")

\* Vec<T>::deserialize: a JSON array all of whose items deserialize as T.
DeserializeVecT(j) ==
  IF "items" \in DOMAIN j
       /\ \A i \in 1..Len(j.items) : IsDeOk(DeserializeT(j.items[i]))
    THEN DeOk([i \in 1..Len(j.items) |-> DeserializeT(j.items[i]).value])
    ELSE DeErr("invalid type")

\* Option<String>::deserialize: null is None, a string is Some.
DeserializeOptionString(j) ==
  IF "null" \in DOMAIN j THEN DeOk(None)
  ELSE IF "str" \in DOMAIN j THEN DeOk(Some(j.str))
  ELSE DeErr("invalid type")

\* deserialize_one_or_many without the One variant: only arrays are taken.
deserialize_one_or_many_only_many(j) ==
  LET many == DeserializeVecT(j)
  IN IF IsDeOk(many) THEN DeOk(many.value)
     ELSE DeErr("data did not match any variant of untagged enum OneOrMany")

\* fn deserialize_one_or_many: the untagged enum tries One(T) first, then
\* Many(Vec<T>); One(value) becomes vec![value].
deserialize_one_or_many(j) ==
  LET one == DeserializeT(j)
      many == DeserializeVecT(j)
  IN IF IsDeOk(one) THEN DeOk(<<one.value>>)
     ELSE IF IsDeOk(many) THEN DeOk(many.value)
     ELSE DeErr("data did not match any variant of untagged enum OneOrMany")

\* fn deserialize_one: Simple(T) first, then Array([T; 1]).
deserialize_one(j) ==
  LET simple == DeserializeT(j)
      array == DeserializeVecT(j)
  IN IF IsDeOk(simple) THEN DeOk(<<simple.value>>)
     ELSE IF IsDeOk(array) /\ Len(array.value) = 1 THEN DeOk(array.value)
     ELSE DeErr("data did not match any variant of untagged enum MaybeArray")

\* fn deserialize_skip_error: Ok(o) => o, Err(_) => Default::default()
deserialize_skip_error(j) ==
  LET result == DeserializeOptionString(j)
  IN IF IsDeOk(result) THEN DeOk(result.value) ELSE DeOk(None)

\* A protocol struct with a `to` field read by deserialize_one_or_many, an
\* `object` field read by deserialize_one and a `source` field read by
\* deserialize_skip_error: the struct decodes iff every field does.
DeserializePayload(p) ==
  LET to == deserialize_one_or_many(p.to)
      object == deserialize_one(p.object)
      source == deserialize_skip_error(p.source)
  IN [to |-> to, object |-> object, source |-> source,
      ok |-> IsDeOk(to) /\ IsDeOk(object) /\ IsDeOk(source)]

CodecIdle == payload = Pending /\ decoded = Pending

CodecInit ==
  /\ payload \in [to : JValues, object : {JStr("a"), JArr(<<JStr("a")>>), JNull},
                  source : JScalars \cup {JArr(<<>>)}]
  /\ decoded = Pending

\* serde decodes the payload.
Deserialize ==
  /\ decoded = Pending
  /\ decoded' = DeserializePayload(payload)
  /\ UNCHANGED payload
  /\ UNCHANGED notCodecVars

-----------------------------------------------------------------------------
(* Specifications *)

PolicyNext ==
  \/ CallCheckApubIdValid
  \/ CallCheckApubIdValidWithStrictness

\* The policy checks on one identifier under one configuration.
InitPolicy == PolicyInit /\ SingletonIdle /\ InboxIdle /\ UrlIdle /\ CodecIdle

SpecPolicy == InitPolicy /\ [][PolicyNext]_vars

SingletonNext ==
  \/ \E t \in Callers : GetOrInitFast(t)
  \/ \E t \in Callers : GetOrInitStart(t)
  \/ \E t \in Callers : GetOrInitWait(t)
  \/ \E t \in Callers : InitializerDone(t)
  \/ \E t \in Callers : WaitDone(t)
  \/ ChangeSettings

\* Concurrent callers of local_instance.
InitSingleton == SingletonInit /\ InboxIdle /\ UrlIdle /\ CodecIdle

SpecSingleton == InitSingleton /\ [][SingletonNext]_vars

InboxNext ==
  \/ ReceiveParse
  \/ ReceiveAuthenticate
  \/ ReceivePolicy
  \/ ReceiveDispatch
  \/ ReceiveRecord

\* One POST to the site inbox.
InitInbox == InboxInit /\ SingletonIdle /\ UrlIdle /\ CodecIdle

SpecInbox == InitInbox /\ [][InboxNext]_vars

UrlNext ==
  \/ GenerateFirstEndpoint
  \/ GenerateSecondEndpoint
  \/ GenerateSharedInbox

\* Calls of the URL generators.
InitUrl == UrlInit /\ PolicyIdle /\ SingletonIdle /\ InboxIdle /\ CodecIdle

SpecUrl == InitUrl /\ [][UrlNext]_vars

CodecNext == Deserialize

\* Decoding of one payload.
InitCodec == CodecInit /\ PolicyIdle /\ SingletonIdle /\ InboxIdle /\ UrlIdle

SpecCodec == InitCodec /\ [][CodecNext]_vars

-----------------------------------------------------------------------------
(* Properties of the domain policy checks (SpecPolicy) *)

Returned(r) == r # NotYet

Allow(r) == r = Ok

Deny(r) == r \in PolicyRejections

HasDomain == domain(apub_id) # None

IsLocal == HasDomain /\ domain(apub_id)[1] = settings.hostname

InBlocklist ==
  /\ HasDomain
  /\ settings.federation.blocked_instances # None
  /\ domain(apub_id)[1] \in settings.federation.blocked_instances[1]

OutsideAllowlist ==
  /\ HasDomain
  /\ settings.federation.allowed_instances # None
  /\ settings.federation.allowed_instances[1] # {}
  /\ domain(apub_id)[1] \notin settings.federation.allowed_instances[1]

SchemeMatches == apub_id.scheme = get_protocol_string(settings)

\* C1: an identifier whose domain is the local hostname is allowed by the
\* basic check and by the strictness-aware check, whatever the
\* federation-enabled flag, the scheme, the two lists, is_strict and the
\* strict-allowlist setting are.
C1_LocalAlwaysAllowed ==
  IsLocal =>
    /\ Returned(basic_result) => Allow(basic_result)
    /\ Returned(strict_result) => Allow(strict_result)

\* A local identifier on the block-list, off the allow-list, with the wrong
\* scheme and federation disabled, allowed by both checks.
C1_Witness ==
  /\ IsLocal /\ InBlocklist /\ OutsideAllowlist /\ ~SchemeMatches
  /\ ~settings.federation.enabled
  /\ settings.federation.strict_allowlist /\ is_strict
  /\ Allow(basic_result) /\ Allow(strict_result)

\* C2 as stated: every identifier whose domain is on the block-list is
\* denied by the basic check and by the strictness-aware check.
C2_BlockedAlwaysDenied ==
  InBlocklist =>
    /\ Returned(basic_result) => Deny(basic_result)
    /\ Returned(strict_result) => Deny(strict_result)

\* C2 amended: every identifier whose domain is on the block-list and is not
\* the local hostname is denied by both checks, also when the domain is on
\* the allow-list.
C2_BlockedRemoteDenied ==
  (InBlocklist /\ ~IsLocal) =>
    /\ Returned(basic_result) => Deny(basic_result)
    /\ Returned(strict_result) => Deny(strict_result)

\* A remote domain on both lists, federation enabled and the scheme right:
\* both checks answer "Domain is blocked".
C2_Witness ==
  /\ InBlocklist /\ ~IsLocal
  /\ settings.federation.allowed_instances # None
  /\ domain(apub_id)[1] \in settings.federation.allowed_instances[1]
  /\ settings.federation.enabled /\ SchemeMatches
  /\ basic_result = ErrBlocked /\ strict_result = ErrBlocked

\* C3 as stated, for a remote domain D outside a non-empty allow-list: the
\* strictness-aware check denies D when is_strict; it allows D when is_strict
\* is false, the strict-allowlist setting is off, federation is enabled, the
\* scheme matches and D is not on the block-list.
C3_StrictnessDecides ==
  (OutsideAllowlist /\ ~IsLocal /\ Returned(strict_result)) =>
    /\ is_strict => Deny(strict_result)
    /\ (/\ ~is_strict
        /\ ~settings.federation.strict_allowlist
        /\ settings.federation.enabled
        /\ SchemeMatches
        /\ ~InBlocklist) => Allow(strict_result)

\* The typed malformed-identifier outcome of the specification.
InvalidIdentifier == "InvalidIdentifier"

\* C8 as stated: for an identifier without a domain both checks return the
\* typed outcome InvalidIdentifier to the caller, which is neither Ok nor a
\* policy rejection, and the caller is not aborted.
C8_NoDomainIsTypedError ==
  ~HasDomain =>
    /\ Returned(basic_result) => basic_result = InvalidIdentifier
    /\ Returned(strict_result) => strict_result = InvalidIdentifier

-----------------------------------------------------------------------------
(* Properties of local_instance (SpecSingleton) *)

\* Every reference any call has returned is the instance stored in the cell.
AllReturnedAreStored ==
  \A t \in Callers : \A i \in 1..Len(returned[t]) :
    /\ cell.value # None
    /\ returned[t][i] = cell.value[1]

\* C4: under every interleaving of the callers the closure's result is
\* stored at most once, the cell is set exactly when it has been stored,
\* every call returns the stored instance whatever the configuration is at
\* that call, and a set cell never changes.
C4_ConstructedOnce ==
  /\ [](/\ constructed <= 1
        /\ (cell.state = "set" <=> constructed = 1)
        /\ AllReturnedAreStored)
  /\ [][cell.state = "set" => cell' = cell]_vars

\* Two first-use calls overlapped (one caller still waits for the other's
\* initialization, now complete), the initializer has made all its calls,
\* and the configuration is no longer the one the instance was built from.
C4_Witness ==
  \E t1, t2 \in Callers :
    /\ pc[t1] = "waiting"
    /\ cell.state = "set"
    /\ Len(returned[t2]) = MaxCalls
    /\ settings.hostname # cell.value[1].hostname

-----------------------------------------------------------------------------
(* Properties of the site inbox (SpecInbox) *)

SenderHasDomain == domain(req.sender) # None

SenderIsLocal == SenderHasDomain /\ domain(req.sender)[1] = settings.hostname

SenderBlocked ==
  /\ SenderHasDomain
  /\ settings.federation.blocked_instances # None
  /\ domain(req.sender)[1] \in settings.federation.blocked_instances[1]

Took(name) == \E i \in 1..Len(req.trace) : req.trace[i].step = name

\* In the request log every dispatch comes after a passed policy check, and
\* nothing comes after a failed step.
PolicyBeforeDispatch ==
  /\ \A i \in 1..Len(req.trace) :
       req.trace[i].step = "dispatch" =>
         \E j \in 1..(i - 1) : req.trace[j].step = "policy" /\ req.trace[j].ok
  /\ \A i \in 1..Len(req.trace) :
       (req.trace[i].step \in {"parse", "authenticate", "policy"}
          /\ ~req.trace[i].ok) => i = Len(req.trace)

\* C5 as stated: a request whose sender's domain is on the block-list is
\* never dispatched and never recorded and ends in the HTTP error response;
\* and in every request the policy check comes before dispatch, which is not
\* reached after a failed parse, authentication or policy step.
C5_BlockedSenderNotDispatched ==
  /\ SenderBlocked =>
       /\ ~Took("dispatch") /\ ~Took("record")
       /\ ~req.dispatched /\ ~req.recorded
       /\ req.pc = "done" => req.status = HttpError
  /\ PolicyBeforeDispatch

\* C5 amended: the same for a sender whose domain is on the block-list and is
\* not the local hostname.
C5_BlockedRemoteSenderNotDispatched ==
  /\ (SenderBlocked /\ ~SenderIsLocal) =>
       /\ ~Took("dispatch") /\ ~Took("record")
       /\ ~req.dispatched /\ ~req.recorded
       /\ req.pc = "done" => req.status = HttpError
  /\ PolicyBeforeDispatch

\* A parsed, validly signed request of a blocked remote sender that no other
\* rule rejects, ended by the policy step with the error response.
C5_Witness ==
  /\ SenderBlocked /\ ~SenderIsLocal
  /\ settings.federation.enabled
  /\ settings.federation.allowed_instances = None
  /\ req.sender.scheme = get_protocol_string(settings)
  /\ Len(req.trace) = 3
  /\ req.trace[2] = [step |-> "authenticate", ok |-> TRUE]
  /\ req.policy = ErrBlocked
  /\ req.pc = "done" /\ req.status = HttpError

-----------------------------------------------------------------------------
(* Properties of the URL generators (SpecUrl) *)

BothGenerated == ep1 # Pending /\ ep2 # Pending

BothParsed == BothGenerated /\ IsOk(ep1.result) /\ IsOk(ep2.result)

\* A name without "/" and ".": one path segment of letters.
PlainName(n) == \A i \in 1..Len(n) : n[i] \notin {"/", "."}

\* C6 as stated: equal (domain, endpoint type, name) give equal URLs, and
\* two calls that differ in any of the three give different URLs.
C6_EndpointInjective ==
  BothParsed =>
    /\ ep1.call = ep2.call => ep1.result.url = ep2.result.url
    /\ ep1.call # ep2.call => ep1.result.url # ep2.result.url

\* C6 amended: equal inputs give equal results; and for one and the same
\* domain argument and names of letters only, two calls that differ in the
\* endpoint type or in the name give different URLs.
C6_EndpointInjectivePlainNames ==
  /\ (BothGenerated /\ ep1.call = ep2.call) =>
       /\ IsOk(ep1.result) <=> IsOk(ep2.result)
       /\ IsOk(ep1.result) => ep1.result.url = ep2.result.url
  /\ (/\ BothParsed
      /\ ep1.call.domain = ep2.call.domain
      /\ PlainName(ep1.call.name) /\ PlainName(ep2.call.name)
      /\ ep1.call # ep2.call) => ep1.result.url # ep2.result.url

\* Two calls for one domain with the same non-empty plain name and the
\* endpoint types Community and Person, which gave two URLs.
C6_Witness ==
  /\ BothParsed
  /\ ep1.call.domain = ep2.call.domain
  /\ ep1.call.name = ep2.call.name
  /\ ep1.call.name # <<>> /\ PlainName(ep1.call.name)
  /\ ep1.call.endpoint_type = "Community"
  /\ ep2.call.endpoint_type = "Person"
  /\ ep1.result.url # ep2.result.url

SameAuthority(a, b) ==
  a.scheme = b.scheme /\ a.host = b.host /\ a.port = b.port

\* C7: for an actor id with a host the shared inbox is scheme://host[:port]
\* followed by /inbox and nothing of the actor's path, and every actor id
\* with the same scheme, host and port gets the same one.
C7_SharedInboxIsHostLevel ==
  (shared_inbox # Pending /\ actor_id.host # None) =>
    /\ IsOk(shared_inbox)
    /\ UrlString(shared_inbox.url) =
         <<actor_id.scheme, "://", actor_id.host[1].str>>
           \o (IF actor_id.port = None THEN <<>> ELSE <<":", actor_id.port[1]>>)
           \o <<"/", "inbox">>
    /\ \A a \in ActorIds :
         SameAuthority(a, actor_id) =>
           /\ IsOk(generate_shared_inbox_url(a))
           /\ generate_shared_inbox_url(a).url = shared_inbox.url

\* https://a.tld:8080/u/alice gave https://a.tld:8080/inbox.
C7_Witness ==
  /\ shared_inbox # Pending
  /\ actor_id.host # None
  /\ UrlString(actor_id) =
       <<"https", "://", DomainNames[1], ":", "8080", "/", "u", "/", "alice">>
  /\ IsOk(shared_inbox)
  /\ UrlString(shared_inbox.url) =
       <<"https", "://", DomainNames[1], ":", "8080", "/", "inbox">>

-----------------------------------------------------------------------------
(* Properties of the lenient deserializers (SpecCodec) *)

\* p.to is an array all of whose items are values of the element type.
IsArrayOfValues(j) ==
  /\ "items" \in DOMAIN j
  /\ \A i \in 1..Len(j.items) : IsDeOk(DeserializeT(j.items[i]))

\* C9: a bare value v and the array [v] both decode to <<v>>; an array of n
\* values decodes to those n values in order; a `source` that fails to parse
\* decodes to the default (None) without an error, so that the payload
\* decodes whenever its other fields do.
C9_LenientDecoding ==
  decoded # Pending =>
    /\ IsDeOk(DeserializeT(payload.to)) =>
         LET v == DeserializeT(payload.to).value
             wrapped == deserialize_one_or_many(JArr(<<payload.to>>))
         IN /\ IsDeOk(decoded.to) /\ decoded.to.value = <<v>>
            /\ IsDeOk(wrapped) /\ wrapped.value = <<v>>
    /\ IsArrayOfValues(payload.to) =>
         /\ IsDeOk(decoded.to)
         /\ Len(decoded.to.value) = Len(payload.to.items)
         /\ \A i \in 1..Len(payload.to.items) :
              decoded.to.value[i] = payload.to.items[i].str
    /\ ~IsDeOk(DeserializeOptionString(payload.source)) =>
         /\ IsDeOk(decoded.source) /\ decoded.source.value = None
         /\ (IsDeOk(decoded.to) /\ IsDeOk(decoded.object)) => decoded.ok

\* A payload with a bare `to` and a number where `source` wants a string,
\* decoded to a one-element `to` and the default `source`.
C9_Witness ==
  /\ decoded # Pending
  /\ payload.to = JStr("a")
  /\ payload.source = JNum(7)
  /\ decoded.ok
  /\ decoded.to.value = <<"a">>
  /\ decoded.source.value = None

====
